---- MODULE Spec2Model ----
(***************************************************************************)
(* India weather dashboard (app.py) and prefetch script (fetch.py).        *)
(*                                                                         *)
(* Four specifications share this module:                                  *)
(*   SpecGet      safe_get, the retry loop around requests.get             *)
(*   SpecApp      one Streamlit session: reruns of app.py's data-loading   *)
(*                block over the two st.cache_data caches and a clock      *)
(*   SpecPipeline the table built by fetch_open_meteo_multi, its sort and  *)
(*                the quick statistics                                     *)
(*   SpecPrefetch fetch.py's main() writing data.csv                       *)
(*                                                                         *)
(* Time is counted in tenths of a second, the granularity of the           *)
(* time.sleep(0.3) between regions.  A nullable value is a set: {} is      *)
(* null, {v} is the value v; a null temperature or precipitation is the    *)
(* NaN of a float column, as read_csv yields for an empty field.           *)
(***************************************************************************)
EXTENDS Integers, Sequences, FiniteSets, TLC

VARIABLES
    retries,      \* safe_get: the retries argument
    sg,           \* safe_get: loop index, position, responses seen, sleeps, result
    now,          \* app: wall clock, tenths of a second
    singleCache,  \* app: st.cache_data store of fetch_open_meteo_single
    multiCache,   \* app: st.cache_data store of fetch_open_meteo_multi
    csv,          \* app: the regions data.csv holds rows for, {} when it is missing
    loads,        \* app: runs of fetch_open_meteo_multi's body so far
    last,         \* app: what the last rerun of the script did
    regions_map,  \* pipeline: the mapping handed to fetch_open_meteo_multi
    api,          \* pipeline: the rows the API returns for each region
    data,         \* pipeline: the DataFrame `data`
    stats,        \* pipeline: the DataFrame `stats`
    stage,        \* pipeline: position in the script
    source,       \* pipeline: where `data` came from: "csv" or "live"
    pf            \* prefetch: main()'s position, rows, data.csv

getVars  == <<retries, sg>>
appVars  == <<now, singleCache, multiCache, csv, loads, last>>
pipeVars == <<regions_map, api, data, stats, stage, source>>
pfVars   == <<pf>>
vars     == <<retries, sg, now, singleCache, multiCache, csv, loads, last,
              regions_map, api, data, stats, stage, source, pf>>

(***************************************************************************)
(* Bounds of the model.                                                    *)
(***************************************************************************)
MaxRetries == 3

(***************************************************************************)
(* safe_get (app.py 52-67, identical in fetch.py 26-40).                   *)
(***************************************************************************)
\* backoff=1.5 seconds, in tenths of a second
backoff == 15

\* What requests.get can produce: a response with a status, or an exception.
Resp(s) == [exc |-> FALSE, status |-> s]
TransportFailure == [exc |-> TRUE, status |-> 0]
Statuses == {200, 204, 404, 429, 500, 502, 503, 504}
Responses == {Resp(s) : s \in Statuses} \cup {TransportFailure}

\* r.status_code in (429, 500, 502, 503, 504)
IsRetryable(status) == status \in {429, 500, 502, 503, 504}

\* requests' Response.raise_for_status raises HTTPError for 4xx and 5xx only
RaisesForStatus(status) == status >= 400 /\ status < 600

NoError == [type |-> "none", status |-> {}]
HTTPError(status) == [type |-> "HTTPError", status |-> {status}]
ConnectionError == [type |-> "ConnectionError", status |-> {}]
\* RuntimeError("Failed to GET " + url): the message holds the url only
RuntimeError == [type |-> "RuntimeError", status |-> {}]

SafeGetStart ==
    [i |-> 0, pc |-> "loop", seen |-> <<>>, sleeps |-> <<>>,
     err |-> NoError, ret |-> {}]

\* time.sleep(backoff * (i+1))
Delay(i) == backoff * (i + 1)

LoopCondOffByOne(i, n) == i <= n
\* for i in range(retries)
LoopCond(i, n) == i < n

\* except Exception as e: if i == retries - 1: raise; time.sleep(...)
ExceptClause(s, e, n) ==
    IF s.i = n - 1
    THEN [s EXCEPT !.pc = "raised", !.err = e]
    ELSE [s EXCEPT !.sleeps = Append(@, Delay(s.i)), !.i = @ + 1]

\* One iteration of the loop body, r being what requests.get produced.
Attempt(s, r, n) ==
    LET s1 == [s EXCEPT !.seen = Append(@, r)] IN
    IF r.exc THEN ExceptClause(s1, ConnectionError, n)
    ELSE IF r.status = 200 THEN [s1 EXCEPT !.pc = "returned", !.ret = {r}]
    ELSE IF IsRetryable(r.status)
         THEN [s1 EXCEPT !.sleeps = Append(@, Delay(s.i)), !.i = @ + 1]
    ELSE IF RaisesForStatus(r.status)
         THEN ExceptClause(s1, HTTPError(r.status), n)
    ELSE [s1 EXCEPT !.i = @ + 1]

\* The statement after the loop.
Exhausted(s) == [s EXCEPT !.pc = "raised", !.err = RuntimeError]

\* The loop head after an iteration: the next iteration, or the statement
\* after the loop when range(retries) is used up.
LoopHead(s, n) ==
    IF s.pc = "loop" /\ ~LoopCond(s.i, n) THEN Exhausted(s) ELSE s

\* safe_get run to its end against the responses resps (at least n of them).
RECURSIVE SafeGetRun(_, _, _)
SafeGetRun(s, resps, n) ==
    IF s.pc # "loop" THEN s
    ELSE IF LoopCond(s.i, n)
         THEN SafeGetRun(LoopHead(Attempt(s, resps[Len(s.seen) + 1], n), n),
                         resps, n)
    ELSE Exhausted(s)

safe_get(resps, n) == SafeGetRun(SafeGetStart, resps, n)

GetStep(r) ==
    /\ sg.pc = "loop"
    /\ LoopCond(sg.i, retries)
    /\ sg' = LoopHead(Attempt(sg, r, retries), retries)
    /\ UNCHANGED <<retries, appVars, pipeVars, pfVars>>

GetOk == \E r \in Responses : ~r.exc /\ r.status = 200 /\ GetStep(r)

GetRetryable == \E s \in Statuses : IsRetryable(s) /\ GetStep(Resp(s))

GetHTTPError ==
    \E s \in Statuses :
        /\ s # 200 /\ ~IsRetryable(s) /\ RaisesForStatus(s)
        /\ GetStep(Resp(s))

GetOtherStatus ==
    \E s \in Statuses :
        /\ s # 200 /\ ~IsRetryable(s) /\ ~RaisesForStatus(s)
        /\ GetStep(Resp(s))

GetTransportFailure == \E r \in Responses : r.exc /\ GetStep(r)

\* retries=0: the loop body never runs.
GetExhausted ==
    /\ sg.pc = "loop"
    /\ ~LoopCond(sg.i, retries)
    /\ sg' = Exhausted(sg)
    /\ UNCHANGED <<retries, appVars, pipeVars, pfVars>>

InitGet0 ==
    /\ retries \in 0..MaxRetries
    /\ sg = SafeGetStart

NextGet ==
    \/ GetOk
    \/ GetRetryable
    \/ GetHTTPError
    \/ GetOtherStatus
    \/ GetTransportFailure
    \/ GetExhausted

(***************************************************************************)
(* app.py: the two cached fetch functions and the data-loading block.      *)
(***************************************************************************)
\* The head of the REGIONS table, in insertion order.
REGIONS == <<"New Delhi", "Mumbai">>
RegionSet == {REGIONS[k] : k \in 1..Len(REGIONS)}

\* @st.cache_data(ttl=3600): 3600 seconds, in tenths of a second
TTL == 36000
\* time.sleep(0.3) after each region
PoliteSleep == 3
\* safe_get(url) is called with the default retries=3
DefaultRetries == 3

MaxTime == 20000
MaxLoads == 3
HalfTTL == TTL \div 2

\* What the multiselect can return: distinct regions in the order picked.
Selections ==
    {<<>>} \cup {<<r>> : r \in RegionSet}
           \cup ({<<r, q>> : r, q \in RegionSet} \ {<<r, r>> : r \in RegionSet})
Keys == Selections \ {<<>>}

\* The responses the API gives to the requests for one region in one rerun.
NetInputs ==
    {<<Resp(200), Resp(200), Resp(200)>>, <<Resp(503), Resp(503), Resp(503)>>}

RECURSIVE SumSeq(_)
SumSeq(q) == IF q = <<>> THEN 0 ELSE q[1] + SumSeq(Tail(q))

\* st.cache_data keeps an entry for ttl seconds after it was stored.
Fresh(entry, t) == t - entry.stored < TTL

EntryState(cell, t) ==
    IF cell = {} THEN "none"
    ELSE IF \E e \in cell : Fresh(e, t) THEN "fresh" ELSE "expired"

\* fetch_open_meteo_single through its cache, called at time t.  The
\* DataFrame is represented by the time of the response it was parsed from.
fetch_open_meteo_single(sc, region, t, resps) ==
    IF EntryState(sc[region], t) = "fresh"
    THEN LET e == CHOOSE e \in sc[region] : TRUE IN
         [ok |-> TRUE, sc |-> sc, t |-> t, df |-> e.df, nreq |-> 0,
          err |-> NoError]
    ELSE LET r  == safe_get(resps, DefaultRetries)
             t1 == t + SumSeq(r.sleeps)
             df == [fetched |-> t1] IN
         IF r.pc = "returned"
         THEN [ok |-> TRUE,
               sc |-> [sc EXCEPT ![region] = {[stored |-> t1, df |-> df]}],
               t |-> t1, df |-> df, nreq |-> Len(r.seen), err |-> NoError]
         ELSE [ok |-> FALSE, sc |-> sc, t |-> t1, df |-> [fetched |-> t1],
               nreq |-> Len(r.seen), err |-> r.err]

\* A failed region ends the loop with the rows gathered so far as the result.
ReturnPartial(region, c, rows, requested, nreq) ==
    [ok |-> TRUE, t |-> c.t, sc |-> c.sc, df |-> rows,
     requested |-> Append(requested, region), nreq |-> nreq + c.nreq,
     failed |-> {region}, err |-> c.err]

\* The exception of fetch_open_meteo_single leaves fetch_open_meteo_multi.
Propagate(region, c, rows, requested, nreq) ==
    [ok |-> FALSE, t |-> c.t, sc |-> c.sc, df |-> <<>>,
     requested |-> Append(requested, region), nreq |-> nreq + c.nreq,
     failed |-> {region}, err |-> c.err]

\* The body of fetch_open_meteo_multi from region k of regs on.
RECURSIVE MultiBody(_, _, _, _, _, _, _, _)
MultiBody(regs, k, t, sc, rows, requested, nreq, net) ==
    IF k > Len(regs)
    THEN [ok |-> TRUE, t |-> t, sc |-> sc, df |-> rows,
          requested |-> requested, nreq |-> nreq, failed |-> {},
          err |-> NoError]
    ELSE LET c == fetch_open_meteo_single(sc, regs[k], t, net[regs[k]]) IN
         IF ~c.ok
         THEN Propagate(regs[k], c, rows, requested, nreq)
         ELSE MultiBody(regs, k + 1, c.t + PoliteSleep, c.sc,
                        Append(rows, [region |-> regs[k],
                                      fetched |-> c.df.fetched]),
                        IF c.nreq > 0 THEN Append(requested, regs[k])
                                      ELSE requested,
                        nreq + c.nreq, net)

NoRun ==
    [sel |-> <<>>, force_live |-> FALSE,
     outcome |-> "init", df |-> <<>>, at |-> 0, requested |-> <<>>,
     nreq |-> 0, failed |-> {}, err |-> NoError, entry |-> "none",
     stored |-> FALSE]

\* Lines 108-126: the rows of data.csv for the selection, when it is read.
PrefetchedRegions(sel, use_prefetched, force_live) ==
    IF use_prefetched /\ ~force_live /\ csv # {}
    THEN {r \in RegionSet :
            /\ \E k \in 1..Len(sel) : sel[k] = r
            /\ \E S \in csv : r \in S}
    ELSE {}

\* One rerun of the script up to line 144.
Rerun(sel, use_prefetched, force_live, net) ==
    LET run == [NoRun EXCEPT !.sel = sel, !.force_live = force_live,
                             !.at = now]
        pre == PrefetchedRegions(sel, use_prefetched, force_live)
    IN
    IF pre # {}
    THEN /\ last' = [run EXCEPT !.outcome = "csv"]
         /\ UNCHANGED <<now, singleCache, multiCache, csv, loads>>
         /\ UNCHANGED <<getVars, pipeVars, pfVars>>
    ELSE IF sel = <<>>
    THEN /\ last' = [run EXCEPT !.outcome = "stopped"]
         /\ UNCHANGED <<now, singleCache, multiCache, csv, loads>>
         /\ UNCHANGED <<getVars, pipeVars, pfVars>>
    ELSE IF EntryState(multiCache[sel], now) = "fresh"
    THEN LET e == CHOOSE e \in multiCache[sel] : TRUE IN
         /\ last' = [run EXCEPT !.outcome = "hit", !.df = e.df,
                                !.entry = "fresh"]
         /\ UNCHANGED <<now, singleCache, multiCache, csv, loads>>
         /\ UNCHANGED <<getVars, pipeVars, pfVars>>
    ELSE LET b == MultiBody(sel, 1, now, singleCache, <<>>, <<>>, 0, net) IN
         /\ loads < MaxLoads
         /\ loads' = loads + 1
         /\ now' = b.t
         /\ singleCache' = b.sc
         /\ multiCache' =
                IF b.ok
                THEN [multiCache EXCEPT ![sel] = {[stored |-> b.t, df |-> b.df]}]
                ELSE multiCache
         /\ last' = [run EXCEPT
                        !.outcome = IF b.ok THEN "loaded" ELSE "error",
                        !.df = b.df, !.at = b.t, !.requested = b.requested,
                        !.nreq = b.nreq, !.failed = b.failed, !.err = b.err,
                        !.entry = EntryState(multiCache[sel], now),
                        !.stored = b.ok]
         /\ UNCHANGED <<csv, getVars, pipeVars, pfVars>>

RerunScript ==
    \E sel \in Selections, use_prefetched \in BOOLEAN, force_live \in BOOLEAN :
      \E net \in [{sel[k] : k \in 1..Len(sel)} -> NetInputs] :
        Rerun(sel, use_prefetched, force_live, net)

\* Time passes between two reruns.
Tick ==
    /\ now < MaxTime
    /\ now' = now + HalfTTL
    /\ UNCHANGED <<singleCache, multiCache, csv, loads, last>>
    /\ UNCHANGED <<getVars, pipeVars, pfVars>>

\* data.csv holds rows for the first region only, so that a selection can
\* be served from it, partly served from it, or fall back to the live fetch.
InitApp0 ==
    /\ now = 0
    /\ singleCache = [r \in RegionSet |-> {}]
    /\ multiCache = [k \in Keys |-> {}]
    /\ csv = {{REGIONS[1]}}
    /\ loads = 0
    /\ last = NoRun

NextApp == Tick \/ RerunScript

(***************************************************************************)
(* app.py: the table, its sort and the quick statistics.                   *)
(***************************************************************************)
MaxRows == 3

\* The days of the requested range.
Dates == 1..MaxRows
\* What the API reports for a day: temperature_2m_mean and precipitation_sum,
\* either of which may be null.
Readings ==
    {[temp |-> {}, precip |-> {}], [temp |-> {39}, precip |-> {5}],
     [temp |-> {40}, precip |-> {}]}
ApiRows ==
    {[date |-> d, temp |-> m.temp, precip |-> m.precip] :
        d \in Dates, m \in Readings}
\* A response lists days of the range in calendar order, each once.
ApiTables ==
    {q \in UNION {[1..n -> ApiRows] : n \in 0..MaxRows} :
        \A j, k \in 1..Len(q) : j < k => q[j].date < q[k].date}

\* df["region"] = name
TagRows(df, name) ==
    [k \in 1..Len(df) |->
        [date |-> df[k].date, temp |-> df[k].temp, precip |-> df[k].precip,
         region |-> name]]

\* pd.concat(rows, ignore_index=True) over the regions in insertion order
RECURSIVE ConcatRegions(_, _)
ConcatRegions(regs, tables) ==
    IF regs = <<>> THEN <<>>
    ELSE TagRows(tables[regs[1]], regs[1]) \o ConcatRegions(Tail(regs), tables)

\* Python's order on the region names.
Alphabetical == <<"Mumbai", "New Delhi">>
Rank(r) == CHOOSE k \in 1..Len(Alphabetical) : Alphabetical[k] = r

\* the order of sort_values(["region","date"])
RowLE(a, b) ==
    \/ Rank(a.region) < Rank(b.region)
    \/ a.region = b.region /\ a.date <= b.date

RECURSIVE InsertSorted(_, _)
InsertSorted(x, q) ==
    IF q = <<>> THEN <<x>>
    ELSE IF RowLE(q[1], x) THEN <<q[1]>> \o InsertSorted(x, Tail(q))
    ELSE <<x>> \o q

\* data.sort_values(["region","date"]) with its result dropped.
SortNotAssigned(d) == d

\* data = data.sort_values(["region","date"]): a stable sort
RECURSIVE SortRows(_)
SortRows(d) ==
    IF d = <<>> THEN <<>>
    ELSE InsertSorted(d[Len(d)], SortRows(SubSeq(d, 1, Len(d) - 1)))

sort_values(d) == SortRows(d)

\* The values of column temp (or precip) of the rows of region g, nulls left out.
TempsOf(d, g) == {k \in 1..Len(d) : d[k].region = g /\ d[k].temp # {}}
PrecipsOf(d, g) == {k \in 1..Len(d) : d[k].region = g /\ d[k].precip # {}}
Val(cell) == CHOOSE v \in cell : TRUE

RECURSIVE SumOver(_, _, _)
SumOver(d, ks, col) ==
    IF ks = {} THEN 0
    ELSE LET k == CHOOSE k \in ks : TRUE IN
         Val(IF col = "temp" THEN d[k].temp ELSE d[k].precip)
            + SumOver(d, ks \ {k}, col)

\* ("temp","mean"): NaN when the group holds no value, else sum / count
MeanTemp(d, g) ==
    IF TempsOf(d, g) = {} THEN {}
    ELSE {[num |-> SumOver(d, TempsOf(d, g), "temp"),
           den |-> Cardinality(TempsOf(d, g))]}

\* ("temp","max"): NaN when the group holds no value
MaxTemp(d, g) ==
    IF TempsOf(d, g) = {} THEN {}
    ELSE {CHOOSE m \in {Val(d[k].temp) : k \in TempsOf(d, g)} :
            \A k \in TempsOf(d, g) : Val(d[k].temp) <= m}

\* lambda s: (s>=40).sum(): NaN >= 40 is False, and the sum of no True is 0
HotDays(d, g) ==
    {Cardinality({k \in TempsOf(d, g) : Val(d[k].temp) >= 40})}

\* ("precip","sum"): nulls are skipped, the empty sum is 0
TotalPrecip(d, g) == {SumOver(d, PrecipsOf(d, g), "precip")}

GroupStats(d, g) ==
    [region |-> g, avg_temp |-> MeanTemp(d, g), max_temp |-> MaxTemp(d, g),
     hot_days |-> HotDays(d, g), total_precip |-> TotalPrecip(d, g)]

GroupsOf(d) == {d[k].region : k \in 1..Len(d)}

\* sort_values("avg_temp", ascending=False): NaN goes last
AvgGE(a, b) ==
    \/ b.avg_temp = {}
    \/ /\ a.avg_temp # {} /\ b.avg_temp # {}
       /\ Val(a.avg_temp).num * Val(b.avg_temp).den
            >= Val(b.avg_temp).num * Val(a.avg_temp).den

\* The orders in which stats can come out for the table d.
StatsTables(d) ==
    {q \in [1..Cardinality(GroupsOf(d)) -> {GroupStats(d, g) : g \in GroupsOf(d)}] :
        /\ \A j, k \in 1..Len(q) : j # k => q[j].region # q[k].region
        /\ \A j, k \in 1..Len(q) : j < k => AvgGE(q[j], q[k])}

\* Lines 110-126: data.csv, written by fetch.py from the same API rows in
\* (region, date) order, is read and filtered to the selected regions.
LoadPrefetched ==
    /\ stage = "start"
    /\ sort_values(ConcatRegions(regions_map, api)) # <<>>
    /\ data' = sort_values(ConcatRegions(regions_map, api))
    /\ stage' = "fetched"
    /\ source' = "csv"
    /\ UNCHANGED <<regions_map, api, stats, getVars, appVars, pfVars>>

\* Line 136: the live fetch of the selected regions succeeded.
FetchMulti ==
    /\ stage = "start"
    /\ data' = ConcatRegions(regions_map, api)
    /\ stage' = "fetched"
    /\ source' = "live"
    /\ UNCHANGED <<regions_map, api, stats, getVars, appVars, pfVars>>

\* Lines 142-144: no rows, the script stops.
StopEmpty ==
    /\ stage = "fetched" /\ data = <<>>
    /\ stage' = "stopped"
    /\ UNCHANGED <<regions_map, api, data, stats, source>>
    /\ UNCHANGED <<getVars, appVars, pfVars>>

\* Line 147.
SortValues ==
    /\ stage = "fetched" /\ data # <<>>
    /\ data' = sort_values(data)
    /\ stage' = "sorted"
    /\ UNCHANGED <<regions_map, api, stats, source, getVars, appVars, pfVars>>

\* Lines 177-182.
QuickStats ==
    /\ stage = "sorted"
    /\ stats' \in StatsTables(data)
    /\ stage' = "stats"
    /\ UNCHANGED <<regions_map, api, data, source, getVars, appVars, pfVars>>

InitPipe0 ==
    /\ regions_map \in Keys
    /\ api \in [{regions_map[k] : k \in 1..Len(regions_map)} -> ApiTables]
    /\ data = <<>>
    /\ stats = <<>>
    /\ stage = "start"
    /\ source = "none"

NextPipe ==
    LoadPrefetched \/ FetchMulti \/ StopEmpty \/ SortValues \/ QuickStats

(***************************************************************************)
(* fetch.py: main() and data.csv.                                          *)
(***************************************************************************)
\* A data.csv left by an earlier run.
PriorFile ==
    {<<[date |-> 1, temp |-> {39}, precip |-> {5}, region |-> "Mumbai"]>>}

\* A failed fetch_region ends main() before to_csv is reached, however many
\* regions were gathered: this variant writes them out first.
WritePartialOnFailure(file, rows) ==
    IF rows = <<>> THEN file ELSE {sort_values(rows)}
\* The exception leaves main() at line 63: lines 66-71 do not run.
FileOnFailure(file, rows) == file

PfIdle == [pc |-> "idle", k |-> 1, rows |-> <<>>, file |-> {}, file0 |-> {}]

\* main() is entered.
PfStart ==
    /\ pf.pc = "idle"
    /\ pf' = [pf EXCEPT !.pc = "loop", !.k = 1, !.rows = <<>>, !.file0 = pf.file]
    /\ UNCHANGED <<getVars, appVars, pipeVars>>

\* Lines 61-65, fetch_region returning the region's rows.
PfFetchOk ==
    /\ pf.pc = "loop" /\ pf.k <= Len(REGIONS)
    /\ \E resps \in NetInputs, table \in ApiTables :
        /\ safe_get(resps, DefaultRetries).pc = "returned"
        /\ pf' = [pf EXCEPT !.rows = @ \o TagRows(table, REGIONS[pf.k]),
                            !.k = @ + 1]
    /\ UNCHANGED <<getVars, appVars, pipeVars>>

\* Lines 61-63, safe_get raising inside fetch_region.
PfFetchFail ==
    /\ pf.pc = "loop" /\ pf.k <= Len(REGIONS)
    /\ \E resps \in NetInputs :
        /\ safe_get(resps, DefaultRetries).pc = "raised"
        /\ pf' = [pf EXCEPT !.pc = "failed",
                            !.file = FileOnFailure(pf.file, pf.rows)]
    /\ UNCHANGED <<getVars, appVars, pipeVars>>

\* Lines 66-73 (rows is a list of one frame per region, empty only when
\* REGIONS is).
PfFinish ==
    /\ pf.pc = "loop" /\ pf.k > Len(REGIONS)
    /\ pf' = [pf EXCEPT !.pc = "done",
                        !.file = IF Len(REGIONS) > 0
                                 THEN {sort_values(pf.rows)} ELSE @]
    /\ UNCHANGED <<getVars, appVars, pipeVars>>

InitPf0 == pf \in {[PfIdle EXCEPT !.file = f] : f \in {{}, PriorFile}}

NextPf == PfStart \/ PfFetchOk \/ PfFetchFail \/ PfFinish

(***************************************************************************)
(* The specifications.  Each one leaves the other parts of the state idle. *)
(***************************************************************************)
IdleGet == retries = 0 /\ sg = SafeGetStart
IdleApp ==
    /\ now = 0
    /\ singleCache = [r \in RegionSet |-> {}]
    /\ multiCache = [k \in Keys |-> {}]
    /\ csv = {{REGIONS[1]}}
    /\ loads = 0
    /\ last = NoRun
IdlePipe ==
    /\ regions_map = <<>> /\ api = <<>> /\ data = <<>> /\ stats = <<>>
    /\ stage = "idle" /\ source = "none"
IdlePf == pf = PfIdle

InitGet == InitGet0 /\ IdleApp /\ IdlePipe /\ IdlePf
SpecGet == InitGet /\ [][NextGet]_vars

InitApp == InitApp0 /\ IdleGet /\ IdlePipe /\ IdlePf
SpecApp == InitApp /\ [][NextApp]_vars

InitPipe == InitPipe0 /\ IdleGet /\ IdleApp /\ IdlePf
SpecPipeline == InitPipe /\ [][NextPipe]_vars

InitPf == InitPf0 /\ IdleGet /\ IdleApp /\ IdlePipe
SpecPrefetch == InitPf /\ [][NextPf]_vars

(***************************************************************************)
(* safe_get: the retry policy.                                             *)
(***************************************************************************)
SeenRetryable(k) == ~sg.seen[k].exc /\ IsRetryable(sg.seen[k].status)
SeenOk(k) == ~sg.seen[k].exc /\ sg.seen[k].status = 200

\* C1: safe_get issues at most `retries` requests; when the k-th response is
\* the first 200 and all earlier ones were retryable statuses, it returns
\* that response after exactly k-1 sleeps; when all `retries` responses are
\* retryable statuses it raises after exactly `retries` requests.
C1_RetryPolicy ==
    /\ Len(sg.seen) <= retries
    /\ \A k \in 1..Len(sg.seen) :
        (SeenOk(k) /\ \A j \in 1..(k - 1) : SeenRetryable(j)) =>
            /\ sg.pc = "returned"
            /\ sg.ret = {sg.seen[k]}
            /\ Len(sg.seen) = k
            /\ Len(sg.sleeps) = k - 1
    /\ (sg.pc # "loop" /\ \A j \in 1..Len(sg.seen) : SeenRetryable(j)) =>
            /\ sg.pc = "raised"
            /\ Len(sg.seen) = retries
    /\ (retries >= 1 /\ Len(sg.seen) = retries
            /\ \A j \in 1..Len(sg.seen) : SeenRetryable(j)) =>
            sg.pc = "raised"

\* [503, 503, 200] with retries=3: returned after two sleeps.
C1_Witness ==
    /\ retries = 3
    /\ sg.seen = <<Resp(503), Resp(503), Resp(200)>>
    /\ sg.pc = "returned"
    /\ Len(sg.sleeps) = 2

\* C2: whenever safe_get ends in failure after at least one attempt, the
\* error it raises carries the status code of the last response, or is the
\* exception of the last attempt.
C2_ErrorCarriesLastAttempt ==
    (sg.pc = "raised" /\ Len(sg.seen) >= 1) =>
        LET l == sg.seen[Len(sg.seen)] IN
        IF l.exc THEN sg.err = ConnectionError
        ELSE sg.err.status = {l.status}

\* C3: a further request follows only a retryable status or a transport
\* failure; any other non-200 status makes safe_get raise at that attempt,
\* with no sleep after it.
C3_OtherStatusRaisesAtOnce ==
    /\ \A k \in 1..(Len(sg.seen) - 1) : sg.seen[k].exc \/ SeenRetryable(k)
    /\ \A k \in 1..Len(sg.seen) :
        (~sg.seen[k].exc /\ ~SeenOk(k) /\ ~SeenRetryable(k)) =>
            /\ sg.pc = "raised"
            /\ Len(sg.seen) = k
            /\ Len(sg.sleeps) = k - 1

(***************************************************************************)
(* app.py: the caches and the force-live flag.                             *)
(***************************************************************************)
Called == last.outcome \in {"hit", "loaded", "error"}

\* C4: a call of the cached fetch whose key has an entry within its TTL
\* returns it without running the loader or the network; a call whose
\* key's entry has expired causes a network request again.
C4_OneRequestPerTTL ==
    /\ (Called /\ last.entry = "fresh") =>
            last.outcome = "hit" /\ last.nreq = 0 /\ last.requested = <<>>
    /\ (Called /\ last.entry = "expired") => last.nreq >= 1

\* C5: with force-live set the cache is not read: the data of a non-empty
\* selection comes from network requests made in this rerun, also when the
\* key has an entry within its TTL.
C5_ForceLiveSkipsCache ==
    (Called /\ last.force_live) =>
        /\ last.outcome # "hit"
        /\ last.nreq >= 1

\* C10: every per-region table handed to the caller was parsed from a
\* response obtained at most one TTL before the call returned.
C10_NeverOlderThanTTL ==
    last.outcome \in {"hit", "loaded"} =>
        \A k \in 1..Len(last.df) : last.at - last.df[k].fetched <= TTL

\* The requested regions come in the order of the selection.
InSelectionOrder(requested, sel) ==
    \E f \in [1..Len(requested) -> 1..Len(sel)] :
        /\ \A k \in 1..Len(requested) : sel[f[k]] = requested[k]
        /\ \A j, k \in 1..Len(requested) : j < k => f[j] < f[k]

PositionIn(sel, r) == CHOOSE k \in 1..Len(sel) : sel[k] = r

\* C6: fetch_open_meteo_multi requests the regions in insertion order, and
\* when a region's fetch fails the call raises that error: no table is
\* returned, the aggregate's cache is left as it was, and no region after
\* the failed one is requested.
C6_FailureIsTotal ==
    [][loads' # loads =>
        /\ InSelectionOrder(last'.requested, last'.sel)
        /\ last'.failed # {} =>
            /\ last'.outcome = "error"
            /\ last'.df = <<>>
            /\ ~last'.stored
            /\ multiCache' = multiCache
            /\ last'.err = RuntimeError
            /\ \A r \in last'.failed :
                /\ last'.requested[Len(last'.requested)] = r
                /\ \A k \in 1..Len(last'.requested) :
                    PositionIn(last'.sel, last'.requested[k])
                        <= PositionIn(last'.sel, r)
        /\ last'.failed = {} =>
            /\ last'.outcome = "loaded"
            /\ Len(last'.df) = Len(last'.sel)
            /\ \A k \in 1..Len(last'.sel) : last'.df[k].region = last'.sel[k]
      ]_vars

\* Two regions selected, the first fetched, the second failing.
C6_Witness ==
    /\ last.outcome = "error"
    /\ Len(last.sel) = 2
    /\ last.failed = {last.sel[2]}
    /\ last.requested = last.sel
    /\ singleCache[last.sel[1]] # {}
    /\ multiCache[last.sel] = {}

(***************************************************************************)
(* app.py: the table and the statistics.                                   *)
(***************************************************************************)
Untag(row) == [date |-> row.date, temp |-> row.temp, precip |-> row.precip]
InMap(g) == \E k \in 1..Len(regions_map) : regions_map[k] = g
CountIn(q, x) == Cardinality({k \in 1..Len(q) : q[k] = x})

\* The table d holds, for each region of the mapping, exactly the rows the
\* API returned for it, tagged with its name, and no other row.
ExactRows(d) ==
    /\ \A k \in 1..Len(d) : InMap(d[k].region)
    /\ \A j \in 1..Len(regions_map) :
        LET g == regions_map[j] IN
        /\ Cardinality({k \in 1..Len(d) : d[k].region = g}) = Len(api[g])
        /\ \A x \in ApiRows :
            Cardinality({k \in 1..Len(d) : d[k].region = g /\ Untag(d[k]) = x})
                = CountIn(api[g], x)

SortedByRegionDate(d) ==
    \A j, k \in 1..Len(d) : j < k => RowLE(d[j], d[k])

\* The regions' blocks follow each other in the order of the mapping, each
\* with its rows in the order the API gave them.
GroupedInInsertionOrder(d) == d = ConcatRegions(regions_map, api)

\* C7 as stated: the table fetch_open_meteo_multi returns holds exactly the
\* API's rows per region, tagged, and is sorted by (region, date).
C7_ReturnedTableSorted ==
    (source = "live" /\ stage = "fetched") =>
        ExactRows(data) /\ SortedByRegionDate(data)

\* C7 amended: the table fetch_open_meteo_multi returns holds exactly the
\* API's rows per region, tagged, the regions in insertion order; it is
\* sorted by (region, date) once line 147 has sorted it, still holding
\* exactly those rows.
C7_SortedAfterSortValues ==
    /\ (source = "live" /\ stage = "fetched") =>
            ExactRows(data) /\ GroupedInInsertionOrder(data)
    /\ (source = "live" /\ stage \in {"sorted", "stats"}) =>
            ExactRows(data) /\ SortedByRegionDate(data)

\* New Delhi before Mumbai in the mapping, three rows each: six rows, the
\* three of Mumbai first after the sort.
C7_Witness ==
    /\ source = "live"
    /\ stage = "sorted"
    /\ regions_map = <<"New Delhi", "Mumbai">>
    /\ \A g \in RegionSet : Len(api[g]) = 3
    /\ Len(data) = 6
    /\ \A k \in 1..3 : data[k].region = "Mumbai"

AllNull(d, g) ==
    /\ \E k \in 1..Len(d) : d[k].region = g
    /\ \A k \in 1..Len(d) : d[k].region = g => d[k].temp = {}

\* C9: a region whose temperatures are all null gets a null average, a null
\* maximum and a null hot-day count.
C9_AllNullGivesNull ==
    stage = "stats" =>
        \A k \in 1..Len(stats) :
            AllNull(data, stats[k].region) =>
                /\ stats[k].avg_temp = {}
                /\ stats[k].max_temp = {}
                /\ stats[k].hot_days = {}

(***************************************************************************)
(* fetch.py: data.csv.                                                     *)
(***************************************************************************)
\* C8: when a region's fetch fails the run ends in error with data.csv as
\* it was at the start; data.csv changes only in the step that follows the
\* successful fetch of every configured region, which writes all of them.
C8_NoPartialFile ==
    /\ [](pf.pc = "failed" => pf.file = pf.file0)
    /\ [][pf'.file # pf.file =>
            /\ pf.pc = "loop" /\ pf.k = Len(REGIONS) + 1
            /\ pf'.pc = "done"
            /\ \A j \in 1..Len(REGIONS) :
                \A k \in 1..Len(pf.rows) :
                    pf.rows[k].region = REGIONS[j] =>
                        \E f \in pf'.file : CountIn(f, pf.rows[k]) >= 1
            /\ \A f \in pf'.file : Len(f) = Len(pf.rows)
       ]_vars
    /\ [](pf.pc = "done" => pf.file = {sort_values(pf.rows)})

\* A prior data.csv, the first region fetched with rows, the second failing.
C8_Witness ==
    /\ pf.pc = "failed"
    /\ pf.k = 2
    /\ pf.rows # <<>>
    /\ pf.file = PriorFile

====
